---- MODULE Spec2Model ----
(***************************************************************************)
(* Model of app/db_helpers/blaster_db.py: the Blaster table (peewee on     *)
(* SQLite), the codec helpers, discovery reconciliation                    *)
(* (get_new_blasters), rename (Blaster.put_name), the device session       *)
(* (Blaster.device), sending (send_command, send_raw,                      *)
(* send_command_to_all_blasters) and learning (Blaster.get_command).       *)
(*                                                                         *)
(* Text values (MACs, names, payloads) are sequences of one-character      *)
(* strings so that the codecs and the pattern match can be computed        *)
(* character by character.                                                 *)
(***************************************************************************)
EXTENDS Integers, Sequences, FiniteSets, TLC

VARIABLES
    db,         \* the Blaster table: sequence of rows in rowid order
    op,         \* the last operation executed and its arguments
    result,     \* what the last operation returned or raised
    latest,     \* history: mac_hex -> host of the last reconciled entry
    lastD,      \* history: the discovery list of the last reconcile pass
    net,        \* environment: how each device answers auth / send_data
    sent,       \* device traffic of the last operation: <<uid, bytes>>
    tried,      \* uids on which the last broadcast invoked send_command
    timeout,    \* LEARNING_TIMEOUT, in clock ticks
    clock,      \* time.time(), in clock ticks
    learn,      \* the running get_command call
    threads     \* calls running concurrently, each with its loaded instance

vars == <<db, op, result, latest, lastD, net, sent, tried, timeout, clock, learn, threads>>

----------------------------------------------------------------------------
(* Bounds *)

\* longest list broadlink.discover returns in one pass
MaxDisc == 2

\* largest LEARNING_TIMEOUT, in clock ticks
MaxTimeout == 5

----------------------------------------------------------------------------
(* Small helpers *)

Min(a, b) == IF a < b THEN a ELSE b

\* Python slice s[a:b] for 0 <= a <= b (0-based, end-exclusive, clipped)
Slice(s, a, b) == SubSeq(s, a + 1, Min(b, Len(s)))

RECURSIVE Join(_, _)
\* sep.join(parts)
Join(parts, sep) ==
    IF Len(parts) = 0 THEN <<>>
    ELSE IF Len(parts) = 1 THEN parts[1]
    ELSE parts[1] \o sep \o Join(Tail(parts), sep)

\* all sequences over S of length <= n
SeqsUpTo(S, n) == UNION {[1..k -> S] : k \in 0..n}

\* absent value (Python None) and a present text value
None == [isNone |-> TRUE, val |-> <<>>]
Some(s) == [isNone |-> FALSE, val |-> s]

----------------------------------------------------------------------------
(* Codec *)

HexDigits == <<"0","1","2","3","4","5","6","7","8","9","a","b","c","d","e","f">>

RECURSIVE enc_hex(_)
\* codecs.encode(raw, "hex").decode(): two lowercase digits per byte
enc_hex(raw) ==
    IF raw = <<>> THEN <<>>
    ELSE <<HexDigits[(Head(raw) \div 16) + 1], HexDigits[(Head(raw) % 16) + 1]>>
         \o enc_hex(Tail(raw))

HexVal(c) == (CHOOSE i \in 1..16 : HexDigits[i] = c) - 1

RECURSIVE dec_hex(_)
\* codecs.decode(raw, "hex") on an even-length string of hex digits
dec_hex(raw) ==
    IF raw = <<>> THEN <<>>
    ELSE <<HexVal(raw[1]) * 16 + HexVal(raw[2])>> \o dec_hex(SubSeq(raw, 3, Len(raw)))

friendly_mac_from_hex(raw) ==
    Join([x \in 1..6 |-> Slice(raw, (x - 1) * 2, x * 2)], <<":">>)

B64Chars ==
    <<"A","B","C","D","E","F","G","H","I","J","K","L","M","N","O","P",
      "Q","R","S","T","U","V","W","X","Y","Z","a","b","c","d","e","f",
      "g","h","i","j","k","l","m","n","o","p","q","r","s","t","u","v",
      "w","x","y","z","0","1","2","3","4","5","6","7","8","9","+","/">>

\* bytes per output line of base64.encodebytes
MAXBINSIZE == 57

RECURSIVE b2a_base64(_)
\* one line of base64 without the line end: 3 bytes -> 4 characters, "=" padded
b2a_base64(raw) ==
    IF raw = <<>> THEN <<>>
    ELSE IF Len(raw) = 1 THEN
        <<B64Chars[(raw[1] \div 4) + 1], B64Chars[((raw[1] % 4) * 16) + 1], "=", "=">>
    ELSE IF Len(raw) = 2 THEN
        <<B64Chars[(raw[1] \div 4) + 1],
          B64Chars[((raw[1] % 4) * 16 + raw[2] \div 16) + 1],
          B64Chars[((raw[2] % 16) * 4) + 1], "=">>
    ELSE
        <<B64Chars[(raw[1] \div 4) + 1],
          B64Chars[((raw[1] % 4) * 16 + raw[2] \div 16) + 1],
          B64Chars[((raw[2] % 16) * 4 + raw[3] \div 64) + 1],
          B64Chars[(raw[3] % 64) + 1]>>
        \o b2a_base64(SubSeq(raw, 4, Len(raw)))

RECURSIVE enc_b64(_)
\* codecs.encode(raw, "base64").decode(): lines of at most 57 bytes, each
\* followed by a newline
enc_b64(raw) ==
    IF raw = <<>> THEN <<>>
    ELSE b2a_base64(Slice(raw, 0, MAXBINSIZE)) \o <<"\n">>
         \o enc_b64(SubSeq(raw, MAXBINSIZE + 1, Len(raw)))

IsB64Char(c) == \E i \in 1..64 : B64Chars[i] = c
B64Val(c) == (CHOOSE i \in 1..64 : B64Chars[i] = c) - 1

RECURSIVE a2b_base64(_, _, _, _, _)
\* binascii.a2b_base64 (not strict): characters outside the alphabet are
\* skipped, a complete pad sequence ends the input, and data that stops inside
\* a quad raises binascii.Error
a2b_base64(s, quad_pos, leftchar, pads, out) ==
    IF s = <<>> THEN
        IF quad_pos # 0 THEN [ok |-> FALSE, val |-> <<>>]
        ELSE [ok |-> TRUE, val |-> out]
    ELSE IF Head(s) = "=" THEN
        IF quad_pos >= 2 /\ quad_pos + pads + 1 >= 4
        THEN [ok |-> TRUE, val |-> out]
        ELSE a2b_base64(Tail(s), quad_pos,
                        leftchar, IF quad_pos >= 2 THEN pads + 1 ELSE pads, out)
    ELSE IF ~IsB64Char(Head(s)) THEN
        a2b_base64(Tail(s), quad_pos, leftchar, pads, out)
    ELSE LET c == B64Val(Head(s)) IN
        IF quad_pos = 0 THEN a2b_base64(Tail(s), 1, c, 0, out)
        ELSE IF quad_pos = 1 THEN
            a2b_base64(Tail(s), 2, c % 16, 0, Append(out, leftchar * 4 + c \div 16))
        ELSE IF quad_pos = 2 THEN
            a2b_base64(Tail(s), 3, c % 4, 0, Append(out, leftchar * 16 + c \div 4))
        ELSE a2b_base64(Tail(s), 0, 0, 0, Append(out, leftchar * 64 + c))

\* bytearray(codecs.decode(raw.encode(), "base64")); ok = FALSE stands for the
\* binascii.Error the decode raises
dec_b64(raw) == a2b_base64(raw, 0, 0, 0, <<>>)
----------------------------------------------------------------------------
(* Inputs *)

\* what broadlink.discover reports for one device
Device(mac, host, devtype, type) ==
    [mac |-> mac, host |-> host, devtype |-> devtype, type |-> type]

\* raw MAC addresses as discovery reports them
MACs == { <<10, 27, 44, 61, 78, 95>>, <<52, 234, 52, 0, 17, 255>> }

Hosts == { <<"192.168.1.10", 80>>, <<"192.168.1.11", 8080>> }

\* (devtype, type) pairs of broadlink devices: two blasters and a smart plug
Kinds == { <<10002, <<"R","M","2">> >>, <<20954, <<"R","M","4">> >>,
           <<10001, <<"S","P","2">> >> }

Devices == { Device(m, h, k[1], k[2]) : m \in MACs, h \in Hosts, k \in Kinds }

DiscoveryLists == SeqsUpTo(Devices, MaxDisc)

Types == { k[2] : k \in Kinds }

\* encoded payloads: "AQI=" decodes to the bytes 1, 2; "AQ" stops inside a quad
\* and cannot be decoded
Payloads == { <<"A","Q","I","=">>, <<"A","Q">> }

\* names given to blasters; "[t]v" is also a pattern to the "%" operator
Names == { <<"t","v">>, <<"[","t","]","v">> }

MacHexes == { enc_hex(m) : m \in MACs }

Macs == { friendly_mac_from_hex(h) : h \in MacHexes }

\* every text the table is searched for or holds in a searched column
\* bytes in reversed order
Reversed(raw) == [i \in 1..Len(raw) |-> raw[Len(raw) + 1 - i]]

\* the mac_hex of a row written before mac_hex held enc_hex(blaster.mac): the
\* hex of the bytes in the opposite order
LegacyHex == [m \in MACs |-> enc_hex(Reversed(m))]

Texts == Names \cup MacHexes \cup Macs \cup {LegacyHex[m] : m \in MACs}

----------------------------------------------------------------------------
(* The SQLite pattern match behind peewee's "%" operator *)

\* the characters of the model in ASCII order; Ord gives their relative order
AsciiOrder ==
    <<"\n","!","*","+","-","/","0","1","2","3","4","5","6","7","8","9",":","=","?",
      "A","B","C","D","E","F","G","H","I","J","K","L","M","N","O","P","Q","R","S",
      "T","U","V","W","X","Y","Z","[","]","^",
      "a","b","c","d","e","f","g","h","i","j","k","l","m","n","o","p","q","r","s",
      "t","u","v","w","x","y","z">>

OrdTable ==
    [c \in {AsciiOrder[i] : i \in 1..Len(AsciiOrder)} |->
        CHOOSE i \in 1..Len(AsciiOrder) : AsciiOrder[i] = c]

Ord(c) == OrdTable[c]

RECURSIVE ScanSet(_, _, _, _)
\* the body of a "[...]" set, matched against the text character c; prior is
\* the previous set member ("" when a range cannot start here)
ScanSet(q, c, prior, seen) ==
    IF q = <<>> THEN [closed |-> FALSE, seen |-> seen, rest |-> <<>>]
    ELSE IF Head(q) = "]" THEN [closed |-> TRUE, seen |-> seen, rest |-> Tail(q)]
    ELSE IF Head(q) = "-" /\ Len(q) >= 2 /\ q[2] # "]" /\ prior # "" THEN
        ScanSet(SubSeq(q, 3, Len(q)), c, "",
                seen \/ (Ord(c) >= Ord(prior) /\ Ord(c) <= Ord(q[2])))
    ELSE ScanSet(Tail(q), c, Head(q), seen \/ c = Head(q))

\* a whole "[...]" set: optional "^", then an optional literal "]", then the body
MatchSet(q, c) ==
    LET invert == q # <<>> /\ Head(q) = "^"
        q1 == IF invert THEN Tail(q) ELSE q
        first == q1 # <<>> /\ Head(q1) = "]"
        q2 == IF first THEN Tail(q1) ELSE q1
        r == ScanSet(q2, c, "", first /\ c = "]")
    IN [ok |-> r.closed /\ (r.seen # invert), rest |-> r.rest]

RECURSIVE SkipStars(_, _)
\* after a "*": further "*" are dropped and every "?" consumes one character
SkipStars(p, t) ==
    IF p # <<>> /\ Head(p) = "*" THEN SkipStars(Tail(p), t)
    ELSE IF p # <<>> /\ Head(p) = "?" THEN
        IF t = <<>> THEN [ok |-> FALSE, p |-> p, t |-> t]
        ELSE SkipStars(Tail(p), Tail(t))
    ELSE [ok |-> TRUE, p |-> p, t |-> t]

RECURSIVE Glob(_, _)
\* SQLite "text GLOB pattern" (patternCompare): case-sensitive, "*" any run,
\* "?" any one character, "[...]" a character set
Glob(p, t) ==
    IF p = <<>> THEN t = <<>>
    ELSE IF Head(p) = "*" THEN
        LET s == SkipStars(Tail(p), t) IN
        /\ s.ok
        /\ \/ s.p = <<>>
           \/ \E k \in 0..Len(s.t) : Glob(s.p, SubSeq(s.t, k + 1, Len(s.t)))
    ELSE IF t = <<>> THEN FALSE
    ELSE IF Head(p) = "?" THEN Glob(Tail(p), Tail(t))
    ELSE IF Head(p) = "[" THEN
        LET m == MatchSet(Tail(p), Head(t)) IN m.ok /\ Glob(m.rest, Tail(t))
    ELSE Head(p) = Head(t) /\ Glob(Tail(p), Tail(t))

\* the peewee expression  field % value  on SqliteDatabase: "field GLOB value";
\* a NULL on either side matches nothing
\* Glob over the texts of the model, computed once: the texts each pattern
\* matches
Matches == [p \in Texts |-> {t \in Texts : Glob(p, t)}]

Like(fieldValue, pattern) ==
    /\ ~fieldValue.isNone
    /\ ~pattern.isNone
    /\ fieldValue.val \in Matches[pattern.val]
----------------------------------------------------------------------------
(* The Blaster table *)

\* a row of the table; uid is the AutoField, name is None or Some(text)
Row(uid, ip, port, devtype, devicetype, mac, mac_hex, name) ==
    [uid |-> uid, ip |-> ip, port |-> port, devtype |-> devtype,
     devicetype |-> devicetype, mac |-> mac, mac_hex |-> mac_hex, name |-> name]

\* get_or_none searching the name column whatever the field asked for
get_or_none_name_column(tbl, field, value) ==
    LET hits == {i \in 1..Len(tbl) : Like(tbl[i].name, value)}
    IN IF hits = {} THEN 0 ELSE CHOOSE i \in hits : \A j \in hits : i <= j

\* Blaster.get_or_none(Blaster.<field> % value): uid of the first matching row,
\* 0 when there is none
get_or_none(tbl, field, value) ==
    LET hits == {i \in 1..Len(tbl) :
                    Like(IF field = "name" THEN tbl[i].name ELSE Some(tbl[i][field]),
                         value)}
    IN IF hits = {} THEN 0 ELSE CHOOSE i \in hits : \A j \in hits : i <= j

\* the unique=True constraints on mac, mac_hex and name (NULL names never clash)
UniqueOk(tbl, row) ==
    \A i \in 1..Len(tbl) :
        tbl[i].uid # row.uid =>
            /\ tbl[i].mac # row.mac
            /\ tbl[i].mac_hex # row.mac_hex
            /\ (row.name.isNone \/ tbl[i].name # row.name)

\* Model.save() of a loaded instance: UPDATE of every field WHERE uid = obj.uid;
\* a violated constraint raises IntegrityError and leaves the table alone
save(tbl, obj) ==
    IF UniqueOk(tbl, obj)
    THEN [tbl |-> [tbl EXCEPT ![obj.uid] = obj], raised |-> FALSE]
    ELSE [tbl |-> tbl, raised |-> TRUE]

\* create() storing the mac_hex as the name of the new row
create_names_row(tbl, ip, port, devtype, devicetype, mac_hex, mac, name) ==
    LET row == Row(Len(tbl) + 1, ip, port, devtype, devicetype, mac, mac_hex, Some(mac_hex))
    IN IF UniqueOk(tbl, row)
       THEN [tbl |-> Append(tbl, row), raised |-> FALSE]
       ELSE [tbl |-> tbl, raised |-> TRUE]

\* Blaster.create(...): INSERT with the next uid
create(tbl, ip, port, devtype, devicetype, mac_hex, mac, name) ==
    LET row == Row(Len(tbl) + 1, ip, port, devtype, devicetype, mac, mac_hex, name)
    IN IF UniqueOk(tbl, row)
       THEN [tbl |-> Append(tbl, row), raised |-> FALSE]
       ELSE [tbl |-> tbl, raised |-> TRUE]

----------------------------------------------------------------------------
(* Discovery and reconciliation *)

LowerTable ==
    [c \in DOMAIN OrdTable |->
        IF Ord(c) >= Ord("A") /\ Ord(c) <= Ord("Z")
        THEN AsciiOrder[Ord(c) - Ord("A") + Ord("a")]
        ELSE c]

LowerChar(c) == LowerTable[c]

\* str.lower()
Lower(str) == [i \in 1..Len(str) |-> LowerChar(str[i])]

\* the codecs over the values of the model, computed once
LowerType == [t \in Types |-> Lower(t)]
EncHex == [m \in MACs |-> enc_hex(m)]
FriendlyMac == [h \in MacHexes |-> friendly_mac_from_hex(h)]

\* discover_blasters: keep the devices whose type is rm2 or rm4
discover_blasters(found) ==
    SelectSeq(found, LAMBDA b : LowerType[b.type] \in {<<"r","m","2">>, <<"r","m","4">>})

\* the assignments to a matched row with ip and port left out
Refreshed_keep_address(row, blaster, mac, mac_hex) ==
    [row EXCEPT !.mac = mac, !.mac_hex = mac_hex]

\* the assignments get_new_blasters makes to the row it matched
Refreshed(row, blaster, mac, mac_hex) ==
    [row EXCEPT !.ip = blaster.host[1],
                !.port = blaster.host[2],
                !.mac = mac,
                !.mac_hex = mac_hex]

\* one iteration of the loop of get_new_blasters; st = [tbl, cnt, raised]
ReconcileOne(st, blaster) ==
    LET mac_hex == EncHex[blaster.mac]
        mac == FriendlyMac[mac_hex]
        byHex == get_or_none(st.tbl, "mac_hex", Some(mac_hex))
        check_blaster == IF byHex # 0 THEN byHex
                         ELSE get_or_none(st.tbl, "mac", Some(mac))
    IN IF check_blaster # 0 THEN
           LET r == save(st.tbl, Refreshed(st.tbl[check_blaster], blaster, mac, mac_hex))
           IN [tbl |-> r.tbl, cnt |-> st.cnt, raised |-> r.raised]
       ELSE
           LET r == create(st.tbl, blaster.host[1], blaster.host[2], blaster.devtype,
                           LowerType[blaster.type], mac_hex,
                           FriendlyMac[mac_hex], None)
           IN [tbl |-> r.tbl,
               cnt |-> IF r.raised THEN st.cnt ELSE st.cnt + 1,
               raised |-> r.raised]

RECURSIVE ReconcileLoop(_, _)

\* the loop leaving after its first iteration
ReconcileLoop_first_only(st, blasters) ==
    IF blasters = <<>> \/ st.raised THEN st
    ELSE ReconcileOne(st, Head(blasters))

\* the for loop: stops at the first exception
ReconcileLoop(st, blasters) ==
    IF blasters = <<>> \/ st.raised THEN st
    ELSE ReconcileLoop(ReconcileOne(st, Head(blasters)), Tail(blasters))

\* get_new_blasters with broadlink.discover returning found: the table after
\* the call, the count it returns, and whether it raised instead
get_new_blasters(tbl, found) ==
    ReconcileLoop([tbl |-> tbl, cnt |-> 0, raised |-> FALSE], discover_blasters(found))

\* Blaster.put_name on the instance self (a loaded row)
put_name(tbl, self, name) ==
    LET check_blaster == get_or_none(tbl, "name", Some(name))
    IN IF check_blaster # 0
       THEN [tbl |-> tbl, value |-> FALSE, raised |-> FALSE]
       ELSE LET r == save(tbl, [self EXCEPT !.name = Some(name)])
            IN [tbl |-> r.tbl, value |-> TRUE, raised |-> r.raised]
----------------------------------------------------------------------------
(* The device session and sending *)

\* what a call returned or the exception it raised (exc); value is "True",
\* "False" or "None", "count" with the number in cnt, or "text" with the
\* string in text
Returned(v) == [raised |-> FALSE, exc |-> "", value |-> v, cnt |-> 0, text |-> <<>>]
ReturnedCount(n) == [Returned("count") EXCEPT !.cnt = n]
ReturnedText(str) == [Returned("text") EXCEPT !.text = str]
Raised(e) == [Returned("None") EXCEPT !.raised = TRUE, !.exc = e]
NoResult == Returned("None")
Bool(b) == IF b THEN "True" ELSE "False"

\* how a physical device answers: auth() succeeds, times out
\* (NetworkTimeoutError) or fails with another broadlink exception
\* (AuthenticationError: the device rejects the handshake); send_data and
\* enter_learning succeed or raise
Answers(auth, send, enter) == [auth |-> auth, send |-> send, enter |-> enter]

Behaviours ==
    { Answers("ok", "ok", "ok"),
      Answers("NetworkTimeoutError", "ok", "ok"),
      Answers("AuthenticationError", "ok", "ok"),
      Answers("ok", "NetworkTimeoutError", "ok"),
      Answers("ok", "ok", "NetworkTimeoutError") }

\* Blaster.device: broadlink.rm for an rm2 row, broadlink.rm4 otherwise, then
\* auth(); only NetworkTimeoutError is caught and turned into None
device(self, answers) ==
    LET dev == [cls |-> IF self.devicetype = <<"r","m","2">> THEN "rm" ELSE "rm4",
                host |-> <<self.ip, self.port>>,
                mac |-> dec_hex(self.mac_hex),
                devtype |-> self.devtype]
    IN IF answers.auth = "ok"
       THEN [raised |-> FALSE, exc |-> "", isNone |-> FALSE, dev |-> dev]
       ELSE IF answers.auth = "NetworkTimeoutError"
       THEN [raised |-> FALSE, exc |-> "", isNone |-> TRUE, dev |-> dev]
       ELSE [raised |-> TRUE, exc |-> answers.auth, isNone |-> TRUE, dev |-> dev]

\* Blaster.available
available(self, answers) ==
    LET d == device(self, answers)
    IN IF d.raised THEN Raised(d.exc) ELSE Returned(Bool(~d.isNone))

\* device.send_data(dec_b64(text)) on an opened session: the argument is
\* decoded first, then handed to the device; sent lists the send_data calls
SendData(self, text, answers) ==
    LET data == dec_b64(text)
    IN IF ~data.ok THEN [result |-> Raised("binascii.Error"), sent |-> <<>>]
       ELSE IF answers.send # "ok"
       THEN [result |-> Raised(answers.send), sent |-> << <<self.uid, data.val>> >>]
       ELSE [result |-> Returned("True"), sent |-> << <<self.uid, data.val>> >>]

\* Blaster.send_command
send_command(self, command, answers) ==
    LET d == device(self, answers)
    IN IF d.raised THEN [result |-> Raised(d.exc), sent |-> <<>>]
       ELSE IF ~d.isNone THEN SendData(self, command.value, answers)
       ELSE [result |-> Returned("False"), sent |-> <<>>]

\* Blaster.send_raw
send_raw(self, value, answers) ==
    LET d == device(self, answers)
    IN IF d.raised THEN [result |-> Raised(d.exc), sent |-> <<>>]
       ELSE IF ~d.isNone THEN SendData(self, value, answers)
       ELSE [result |-> Returned("False"), sent |-> <<>>]

\* get_all_blasters: Blaster.select(), the rows in rowid order
get_all_blasters(tbl) == tbl

RECURSIVE BroadcastLoop(_, _, _, _)
\* the for loop of send_command_to_all_blasters: the return value of
\* send_command is dropped, an exception ends the loop and the call;
\* acc = [result, sent, tried]
BroadcastLoop(blasters, command, answers, acc) ==
    IF blasters = <<>> \/ acc.result.raised THEN acc
    ELSE BroadcastLoop(Tail(blasters), command, answers,
            CHOOSE next \in
                { [result |-> IF r.result.raised THEN r.result ELSE Returned("None"),
                   sent |-> acc.sent \o r.sent,
                   tried |-> Append(acc.tried, Head(blasters).uid)] :
                  r \in {send_command(Head(blasters), command,
                                      answers[Head(blasters).uid])} } : TRUE)

\* send_command_to_all_blasters
send_command_to_all_blasters(tbl, command, answers) ==
    BroadcastLoop(get_all_blasters(tbl), command, answers,
                  [result |-> Returned("None"), sent |-> <<>>, tried |-> <<>>])

----------------------------------------------------------------------------
(* Learning *)

\* the clock counts half time units: time.sleep(1) takes two ticks, so that
\* LEARNING_TIMEOUT can fall between two polls
PollInterval == 2

\* the condition of the while loop with <= in place of <
LoopCondition_inclusive(now, start, limit) == now - start <= limit

\* time.time() - start < LEARNING_TIMEOUT
LoopCondition(now, start, limit) == now - start < limit

\* captured data as check_data returns it: nothing, zero bytes only, a signal
Captures == { <<>>, <<0, 0>>, <<38, 0>> }

\* what one device.check_data() call does: ReadError and StorageError are the
\* two exceptions the loop swallows, any other exception leaves get_command
PollOutcomes ==
    {[kind |-> k, value |-> <<>>] : k \in {"ReadError", "StorageError", "NetworkTimeoutError"}}
    \cup {[kind |-> "data", value |-> v] : v \in Captures}

\* value.replace(b"\x00", b"")
StripZeros(value) == SelectSeq(value, LAMBDA b : b # 0)

\* the code after the loop testing only that the value is not empty
AfterLoop_any_bytes(value) ==
    IF value # <<>>
    THEN ReturnedText(enc_b64(value))
    ELSE Returned("None")

\* the code after the loop: the encoded value, or None for no usable value
AfterLoop(value) ==
    IF value # <<>> /\ StripZeros(value) # <<>>
    THEN ReturnedText(enc_b64(value))
    ELSE Returned("None")

----------------------------------------------------------------------------
(* History helpers *)

NoHost == <<>>

RECURSIVE LatestHosts(_, _)
\* history: the host of the last entry per mac_hex among the reconciled devices
LatestHosts(seen, blasters) ==
    IF blasters = <<>> THEN seen
    ELSE LatestHosts([seen EXCEPT ![EncHex[Head(blasters).mac]] = Head(blasters).host],
                     Tail(blasters))

NoOp == [name |-> "none", uid |-> 0, arg |-> <<>>]
NoLearn == [pc |-> "idle", uid |-> 0, entered |-> FALSE, start |-> 0, polls |-> <<>>]

\* lastD: nothing recorded, or the discovery list of the pass just executed
\* (repeated: the number of blasters in the list when the pass just executed
\* was the second one over the same list, -1 otherwise)
NotRecorded == [known |-> FALSE, list |-> <<>>, repeated |-> -1]
Recorded(found) == [known |-> TRUE, list |-> found, repeated |-> -1]

----------------------------------------------------------------------------
(* The registry: reconciliation passes and renames, one call at a time *)

RegistryInit ==
    /\ db = <<>>
    /\ op = NoOp
    /\ result = NoResult
    /\ latest = [m \in MacHexes |-> NoHost]
    /\ lastD = NotRecorded

IdleRest ==
    /\ net = <<>>
    /\ sent = <<>>
    /\ tried = <<>>
    /\ timeout = 0
    /\ clock = 0
    /\ learn = NoLearn
    /\ threads = <<>>

Init == RegistryInit /\ IdleRest

\* a call of get_new_blasters during which broadlink.discover returns found
ReconcileCall(found) ==
    \E r \in {get_new_blasters(db, found)} :
        /\ db' = r.tbl
        /\ op' = [name |-> "get_new_blasters", uid |-> 0, arg |-> <<>>]
        /\ result' = IF r.raised THEN Raised("IntegrityError") ELSE ReturnedCount(r.cnt)
        /\ latest' = LatestHosts(latest, discover_blasters(found))
        /\ UNCHANGED <<net, sent, tried, timeout, clock, learn, threads>>

Reconcile == \E found \in DiscoveryLists : ReconcileCall(found) /\ UNCHANGED lastD

\* a call of put_name on the freshly loaded row uid
PutName ==
    \E uid \in 1..Len(db), name \in Names :
        \E r \in {put_name(db, db[uid], name)} :
            /\ db' = r.tbl
            /\ op' = [name |-> "put_name", uid |-> uid, arg |-> name]
            /\ result' = IF r.raised THEN Raised("IntegrityError") ELSE Returned(Bool(r.value))
            /\ UNCHANGED <<latest, lastD, net, sent, tried, timeout, clock, learn, threads>>

Next == Reconcile \/ PutName

Spec == Init /\ [][Next]_vars

----------------------------------------------------------------------------
(* Reconciliation passes only, with the discovery list of a pass on record  *)
(* when the next pass is going to see the same list again                   *)

\* a pass is the first of a pair exactly when its list is on record
AwaitingRepeat == lastD.known

\* a pass whose discovery list is not kept
ReconcilePass ==
    /\ ~AwaitingRepeat
    /\ \E found \in DiscoveryLists : ReconcileCall(found) /\ lastD' = NotRecorded

\* a pass whose discovery list is kept
ReconcileRecorded ==
    /\ ~AwaitingRepeat
    /\ \E found \in DiscoveryLists : ReconcileCall(found) /\ lastD' = Recorded(found)

\* the next pass: broadlink.discover returns the identical list
ReconcileAgain ==
    /\ AwaitingRepeat
    /\ ReconcileCall(lastD.list)
    /\ lastD' = [known |-> FALSE, list |-> <<>>,
                 repeated |-> Len(discover_blasters(lastD.list))]

NextReconcile == ReconcilePass \/ ReconcileRecorded \/ ReconcileAgain

SpecReconcile == Init /\ [][NextReconcile]_vars

----------------------------------------------------------------------------
(* Renames and then one pass whose discovery list is kept, on a registry    *)
(* that one earlier pass has filled and that may hold a row written by an   *)
(* earlier release, the row get_new_blasters finds through Blaster.mac      *)

\* a row as an earlier release left it: mac is the text of the device's MAC,
\* mac_hex is not enc_hex(blaster.mac)
LegacyRow(m, k) ==
    Row(1, "192.168.1.10", 80, k[1], LowerType[k[2]],
        FriendlyMac[EncHex[m]], LegacyHex[m], None)

LegacyRegistries ==
    {<<>>} \cup {<<LegacyRow(m, k)>> : m \in MACs,
                                       k \in {kk \in Kinds : kk[1] # 10001}}

InitUpsert ==
    /\ \E base \in LegacyRegistries, found \in DiscoveryLists :
          /\ db = get_new_blasters(base, found).tbl
          /\ latest = LatestHosts([m \in MacHexes |-> NoHost], discover_blasters(found))
    /\ op = NoOp
    /\ result = NoResult
    /\ lastD = NotRecorded
    /\ IdleRest

RenameBeforeRecord == ~AwaitingRepeat /\ PutName

NextUpsert == ReconcileRecorded \/ RenameBeforeRecord

SpecUpsert == InitUpsert /\ [][NextUpsert]_vars

----------------------------------------------------------------------------
(* Sending: a registry filled by one reconciliation pass, devices that      *)
(* answer as net says                                                       *)

\* the registry after one pass from the empty table
FilledRegistry ==
    \E found \in DiscoveryLists :
        /\ db = get_new_blasters(<<>>, found).tbl
        /\ latest = LatestHosts([m \in MacHexes |-> NoHost], discover_blasters(found))
        /\ lastD = NotRecorded

InitSend ==
    /\ FilledRegistry
    /\ net \in [1..Len(db) -> Behaviours]
    /\ op = NoOp
    /\ result = NoResult
    /\ sent = <<>>
    /\ tried = <<>>
    /\ timeout = 0
    /\ clock = 0
    /\ learn = NoLearn
    /\ threads = <<>>

SendFrame == UNCHANGED <<db, latest, lastD, net, timeout, clock, learn, threads>>

\* a call of send_command on the loaded row uid
SendCommand ==
    \E uid \in 1..Len(db), payload \in Payloads :
        \E r \in {send_command(db[uid], [value |-> payload], net[uid])} :
            /\ op' = [name |-> "send_command", uid |-> uid, arg |-> payload]
            /\ result' = r.result
            /\ sent' = r.sent
            /\ tried' = <<>>
            /\ SendFrame

\* a call of send_raw on the loaded row uid
SendRaw ==
    \E uid \in 1..Len(db), payload \in Payloads :
        \E r \in {send_raw(db[uid], payload, net[uid])} :
            /\ op' = [name |-> "send_raw", uid |-> uid, arg |-> payload]
            /\ result' = r.result
            /\ sent' = r.sent
            /\ tried' = <<>>
            /\ SendFrame

\* a read of the available property of the loaded row uid
Available ==
    \E uid \in 1..Len(db) :
        /\ op' = [name |-> "available", uid |-> uid, arg |-> <<>>]
        /\ result' = available(db[uid], net[uid])
        /\ sent' = <<>>
        /\ tried' = <<>>
        /\ SendFrame

\* a call of send_command_to_all_blasters
Broadcast ==
    \E payload \in Payloads :
        \E r \in {send_command_to_all_blasters(db, [value |-> payload], net)} :
            /\ op' = [name |-> "send_command_to_all_blasters", uid |-> 0, arg |-> payload]
            /\ result' = r.result
            /\ sent' = r.sent
            /\ tried' = r.tried
            /\ SendFrame

NextSend == SendCommand \/ SendRaw \/ Available \/ Broadcast

SpecSend == InitSend /\ [][NextSend]_vars

----------------------------------------------------------------------------
(* Learning: one get_command call, step by step, on a filled registry       *)

InitLearn ==
    /\ FilledRegistry
    /\ net \in [1..Len(db) -> Behaviours]
    /\ op = NoOp
    /\ result = NoResult
    /\ sent = <<>>
    /\ tried = <<>>
    /\ timeout \in 0..MaxTimeout
    /\ clock = 0
    /\ learn = NoLearn
    /\ threads = <<>>

LearnFrame == UNCHANGED <<db, latest, lastD, net, sent, tried, timeout, threads>>

Finished == [learn EXCEPT !.pc = "done"]

\* get_command up to the loop: open the session, enter learning, take start
LearnStart ==
    /\ learn.pc = "idle"
    /\ \E uid \in 1..Len(db) :
        \E d \in {device(db[uid], net[uid])} :
            /\ op' = [name |-> "get_command", uid |-> uid, arg |-> <<>>]
            /\ IF d.raised
               THEN result' = Raised(d.exc) /\ learn' = [Finished EXCEPT !.uid = uid]
               ELSE IF d.isNone
               THEN result' = Returned("False") /\ learn' = [Finished EXCEPT !.uid = uid]
               ELSE IF net[uid].enter # "ok"
               THEN result' = Raised(net[uid].enter)
                    /\ learn' = [Finished EXCEPT !.uid = uid]
               ELSE result' = result
                    /\ learn' = [pc |-> "test", uid |-> uid, entered |-> TRUE,
                                 start |-> clock, polls |-> <<>>]
    /\ UNCHANGED clock
    /\ LearnFrame

\* the loop giving up after the first poll that failed
LoopTest_no_retry ==
    /\ learn.pc = "test"
    /\ IF LoopCondition(clock, learn.start, timeout) /\ learn.polls = <<>>
       THEN learn' = [learn EXCEPT !.pc = "sleep"] /\ UNCHANGED result
       ELSE learn' = Finished /\ result' = Returned("None")
    /\ UNCHANGED <<op, clock>>
    /\ LearnFrame

\* the while condition; when it fails the else clause of the loop returns None
LoopTest ==
    /\ learn.pc = "test"
    /\ IF LoopCondition(clock, learn.start, timeout)
       THEN learn' = [learn EXCEPT !.pc = "sleep"] /\ UNCHANGED result
       ELSE learn' = Finished /\ result' = Returned("None")
    /\ UNCHANGED <<op, clock>>
    /\ LearnFrame

\* a sleep of half the interval
Sleep_half ==
    /\ learn.pc = "sleep"
    /\ clock' = clock + 1
    /\ learn' = [learn EXCEPT !.pc = "poll"]
    /\ UNCHANGED <<op, result>>
    /\ LearnFrame

\* time.sleep(1)
Sleep ==
    /\ learn.pc = "sleep"
    /\ clock' = clock + PollInterval
    /\ learn' = [learn EXCEPT !.pc = "poll"]
    /\ UNCHANGED <<op, result>>
    /\ LearnFrame

\* device.check_data(): continue on ReadError and StorageError, break on a
\* value and run the code after the loop, raise on anything else
Poll ==
    /\ learn.pc = "poll"
    /\ \E outcome \in PollOutcomes :
        LET seen == [learn EXCEPT !.polls = Append(@, outcome)] IN
        IF outcome.kind \in {"ReadError", "StorageError"}
        THEN learn' = [seen EXCEPT !.pc = "test"] /\ UNCHANGED result
        ELSE IF outcome.kind = "data"
        THEN learn' = [seen EXCEPT !.pc = "done"] /\ result' = AfterLoop(outcome.value)
        ELSE learn' = [seen EXCEPT !.pc = "done"] /\ result' = Raised(outcome.kind)
    /\ UNCHANGED <<op, clock>>
    /\ LearnFrame

NextLearn == LearnStart \/ LoopTest \/ Sleep \/ Poll

SpecLearn == InitLearn /\ [][NextLearn]_vars

\* the call runs on its own thread: a step that can be taken is taken
SpecLearnFair == SpecLearn /\ WF_vars(NextLearn)

----------------------------------------------------------------------------
(* Two calls at a time: passes and renames running in threads; every        *)
(* statement sent to SQLite is one step, the instance a thread has loaded   *)
(* is its own copy of the row                                               *)

NoRow == Row(0, "", 0, 0, <<>>, <<>>, <<>>, None)

\* a get_new_blasters call about to look up the first discovered device;
\* fresh: no row matched the device when the call started
PassThread(tbl, found) ==
    [kind |-> "pass", pc |-> "lookup", self |-> NoRow, hit |-> 0,
     todo |-> discover_blasters(found), first |-> discover_blasters(found),
     name |-> <<>>, cnt |-> 0, out |-> NoResult,
     fresh |-> \A k \in 1..Len(found) :
                  /\ get_or_none(tbl, "mac_hex", Some(EncHex[found[k].mac])) = 0
                  /\ get_or_none(tbl, "mac", Some(FriendlyMac[EncHex[found[k].mac]])) = 0]

\* a put_name call on the instance loaded from row uid;
\* fresh: no row held the name when the call started
RenameThread(tbl, uid, name) ==
    [kind |-> "rename", pc |-> "check", self |-> tbl[uid], hit |-> 0,
     todo |-> <<>>, first |-> <<>>,
     name |-> name, cnt |-> 0, out |-> NoResult,
     fresh |-> \A i \in 1..Len(tbl) : tbl[i].name # Some(name)]

\* the calls a thread can be making: a pass that discovers one device, or a
\* rename of a row
Calls(tbl) ==
    {PassThread(tbl, <<d>>) : d \in Devices}
    \cup {RenameThread(tbl, uid, name) : uid \in 1..Len(tbl), name \in Names}

InitThreads ==
    /\ FilledRegistry
    /\ threads \in [1..2 -> Calls(db)]
    /\ op = NoOp
    /\ result = NoResult
    /\ net = <<>>
    /\ sent = <<>>
    /\ tried = <<>>
    /\ timeout = 0
    /\ clock = 0
    /\ learn = NoLearn

ThreadFrame == UNCHANGED <<op, result, latest, lastD, net, sent, tried, timeout, clock, learn>>

\* the two get_or_none calls at the top of the loop body, or the end of the
\* loop
PassLookup(t) ==
    /\ threads[t].kind = "pass"
    /\ threads[t].pc = "lookup"
    /\ IF threads[t].todo = <<>>
       THEN threads' = [threads EXCEPT ![t].pc = "done",
                                       ![t].out = ReturnedCount(threads[t].cnt)]
       ELSE LET mac_hex == EncHex[Head(threads[t].todo).mac]
                byHex == get_or_none(db, "mac_hex", Some(mac_hex))
                check_blaster == IF byHex # 0 THEN byHex
                                 ELSE get_or_none(db, "mac", Some(FriendlyMac[mac_hex]))
            IN threads' = [threads EXCEPT
                              ![t].pc = "write",
                              ![t].hit = check_blaster,
                              ![t].self = IF check_blaster # 0 THEN db[check_blaster]
                                          ELSE NoRow]
    /\ UNCHANGED db
    /\ ThreadFrame

\* check_blaster.save() of the instance looked up, or Blaster.create
PassWrite(t) ==
    /\ threads[t].kind = "pass"
    /\ threads[t].pc = "write"
    /\ LET blaster == Head(threads[t].todo)
           mac_hex == EncHex[blaster.mac]
           mac == FriendlyMac[mac_hex]
       IN \E r \in {IF threads[t].hit # 0
                    THEN save(db, Refreshed(threads[t].self, blaster, mac, mac_hex))
                    ELSE create(db, blaster.host[1], blaster.host[2], blaster.devtype,
                                LowerType[blaster.type], mac_hex, mac, None)} :
            /\ db' = r.tbl
            /\ threads' = IF r.raised
                          THEN [threads EXCEPT ![t].pc = "done",
                                               ![t].out = Raised("IntegrityError")]
                          ELSE [threads EXCEPT
                                   ![t].pc = "lookup",
                                   ![t].todo = Tail(threads[t].todo),
                                   ![t].cnt = IF threads[t].hit # 0 THEN @ ELSE @ + 1]
    /\ ThreadFrame

\* Blaster.get_or_none(Blaster.name % name) and the test of its result
RenameCheck(t) ==
    /\ threads[t].kind = "rename"
    /\ threads[t].pc = "check"
    /\ \E check_blaster \in {get_or_none(db, "name", Some(threads[t].name))} :
          threads' = IF check_blaster # 0
                     THEN [threads EXCEPT ![t].pc = "done", ![t].hit = check_blaster,
                                          ![t].out = Returned("False")]
                     ELSE [threads EXCEPT ![t].pc = "save"]
    /\ UNCHANGED db
    /\ ThreadFrame

\* self.name = name; self.save(); return True
RenameSave(t) ==
    /\ threads[t].kind = "rename"
    /\ threads[t].pc = "save"
    /\ \E r \in {save(db, [threads[t].self EXCEPT !.name = Some(threads[t].name)])} :
          /\ db' = r.tbl
          /\ threads' = [threads EXCEPT
                            ![t].pc = "done",
                            ![t].self = IF r.raised THEN @
                                        ELSE [@ EXCEPT !.name = Some(threads[t].name)],
                            ![t].out = IF r.raised THEN Raised("IntegrityError")
                                       ELSE Returned("True")]
    /\ ThreadFrame

NextThreads ==
    \E t \in 1..2 : PassLookup(t) \/ PassWrite(t) \/ RenameCheck(t) \/ RenameSave(t)

SpecThreads == InitThreads /\ [][NextThreads]_vars

----------------------------------------------------------------------------
(* Properties of reconciliation *)

\* the blasters of the recorded discovery list
RecordedBlasters == discover_blasters(lastD.list)

RowsOf(tbl, mac_hex) == {i \in 1..Len(tbl) : tbl[i].mac_hex = mac_hex}

\* C1: a second reconcile pass over the identical discovery list returns a
\* new-device count of 0 and leaves the number of records as the first pass
\* left it.
Thm_C1 ==
    [][AwaitingRepeat =>
           /\ result'.value = "count"
           /\ result'.cnt = 0
           /\ Len(db') = Len(db)]_vars

\* a repeated pass over a list with two blasters has run
Witness_C1 ==
    /\ lastD.repeated = 2
    /\ op.name = "get_new_blasters"
    /\ result.value = "count"
    /\ result.cnt = 0
    /\ Len(db) >= 1

\* C2: after any sequence of reconcile passes from the empty registry there is
\* exactly one record per discovered MAC, carrying the ip and port of the most
\* recently reconciled discovery entry for that MAC, and no other record.
Thm_C2 ==
    /\ \A h \in MacHexes :
          IF latest[h] = NoHost THEN RowsOf(db, h) = {}
          ELSE /\ Cardinality(RowsOf(db, h)) = 1
               /\ \A i \in RowsOf(db, h) :
                      db[i].ip = latest[h][1] /\ db[i].port = latest[h][2]
    /\ \A i \in 1..Len(db) : db[i].mac_hex \in MacHexes

\* one pass reported the same MAC twice with different addresses, and the
\* record carries the second one
Witness_C2 ==
    /\ lastD.known
    /\ Len(RecordedBlasters) = 2
    /\ RecordedBlasters[1].mac = RecordedBlasters[2].mac
    /\ RecordedBlasters[1].host[1] # RecordedBlasters[2].host[1]
    /\ RecordedBlasters[1].host[2] # RecordedBlasters[2].host[2]
    /\ Len(db) = 2
    /\ \E i \in 1..Len(db) :
          /\ db[i].mac_hex = enc_hex(RecordedBlasters[2].mac)
          /\ db[i].ip = RecordedBlasters[2].host[1]
          /\ db[i].port = RecordedBlasters[2].host[2]

\* the blasters carry pairwise distinct MACs, none of them in the table
FreshDistinct(blasters, tbl) ==
    /\ \A i, j \in 1..Len(blasters) : i # j => blasters[i].mac # blasters[j].mac
    /\ \A i \in 1..Len(blasters) : RowsOf(tbl, enc_hex(blasters[i].mac)) = {}

\* C3: the count reconcile returns is the number of records it created in that
\* call (records after minus records before), and for a list of N distinct,
\* previously unseen MACs it is N.
Thm_C3 ==
    [][op'.name = "get_new_blasters" =>
           /\ result'.value = "count"
           /\ result'.cnt = Len(db') - Len(db)
           /\ (lastD'.known /\ FreshDistinct(discover_blasters(lastD'.list), db)
                  => result'.cnt = Len(discover_blasters(lastD'.list)))]_vars

\* a pass over two distinct MACs, both new to the registry, returned 2
Witness_C3 ==
    /\ lastD.known
    /\ Len(RecordedBlasters) = 2
    /\ RecordedBlasters[1].mac # RecordedBlasters[2].mac
    /\ op.name = "get_new_blasters"
    /\ result.value = "count"
    /\ result.cnt = 2
    /\ Len(db) = 2

\* the entry of the list that is the last one for its MAC
LastForMac(blasters, k) ==
    \A j \in (k + 1)..Len(blasters) : blasters[j].mac # blasters[k].mac

\* C12 as stated: when a pass matches a discovered device to an existing
\* record, the record's ip, port, devicetype and devtype equal what the device
\* reported.  Checked on the pass that sees a recorded list again, where every
\* entry is matched.
Cex_C12 ==
    [][(AwaitingRepeat /\ ~result'.raised) =>
          \A k \in 1..Len(RecordedBlasters) :
              LastForMac(RecordedBlasters, k) =>
                  \A i \in RowsOf(db', EncHex[RecordedBlasters[k].mac]) :
                      /\ db'[i].ip = RecordedBlasters[k].host[1]
                      /\ db'[i].port = RecordedBlasters[k].host[2]
                      /\ db'[i].devtype = RecordedBlasters[k].devtype
                      /\ db'[i].devicetype = LowerType[RecordedBlasters[k].type]]_vars

\* the six bytes of a 12-digit hex MAC in reversed order, joined by colons
ReversedMac(raw) ==
    Join(<<Slice(raw, 10, 12), Slice(raw, 8, 10), Slice(raw, 6, 8),
           Slice(raw, 4, 6), Slice(raw, 2, 4), Slice(raw, 0, 2)>>, ":")

\* C13 as stated: the mac every record created or updated by a pass holds is
\* friendly_mac_from_hex of its mac_hex, and that is the six bytes in reversed
\* order joined by colons.
Cex_C13 ==
    \A i \in 1..Len(db) :
        /\ db[i].mac = friendly_mac_from_hex(db[i].mac_hex)
        /\ friendly_mac_from_hex(db[i].mac_hex) = ReversedMac(db[i].mac_hex)

\* the row is one a pass over blasters looks up: by mac_hex or by mac
Matched(row, blasters) ==
    \E k \in 1..Len(blasters) :
        \/ row.mac_hex = EncHex[blasters[k].mac]
        \/ row.mac = FriendlyMac[EncHex[blasters[k].mac]]

\* C14: a pass changes no name: every existing record keeps its name, an
\* existing record the pass does not match is left as it was, and every
\* record the pass adds has name NULL.
Thm_C14 ==
    [][(~AwaitingRepeat /\ lastD'.known) =>
          /\ Len(db') >= Len(db)
          /\ \A i \in 1..Len(db) :
                /\ db'[i].name = db[i].name
                /\ ~Matched(db[i], discover_blasters(lastD'.list)) => db'[i] = db[i]
          /\ \A i \in (Len(db) + 1)..Len(db') : db'[i].name = None]_vars

\* a pass matched a named record, moved it to the reported address and added
\* a record
Witness_C14 ==
    /\ lastD.known
    /\ result = ReturnedCount(1)
    /\ Len(db) = 2
    /\ ~db[1].name.isNone
    /\ db[2].name = None
    /\ Len(discover_blasters(lastD.list)) = 2
    /\ Matched(db[1], discover_blasters(lastD.list))
    /\ db[1].ip = "192.168.1.11"

\* C15 as stated: no pass and no rename changes the mac_hex of an existing
\* record.
Cex_C15 ==
    [][\A i \in 1..Len(db) : i <= Len(db') /\ db'[i].mac_hex = db[i].mac_hex]_vars

----------------------------------------------------------------------------
(* Properties of rename *)

\* a row other than uid whose stored name is exactly name
OtherHolds(tbl, uid, name) ==
    \E i \in 1..Len(tbl) : i # uid /\ tbl[i].name = Some(name)

\* C4: renaming record A to a name held by a different record B returns False
\* and leaves every field of every record unchanged.
Cex_C4 ==
    [][(op'.name = "put_name" /\ OtherHolds(db, op'.uid, op'.arg)) =>
           /\ result'.value = "False"
           /\ db' = db]_vars

\* C5: rename returns False only when a record other than the target holds the
\* new name; in every other case it returns True and the target's stored name
\* is the new name.
Cex_C5 ==
    [][op'.name = "put_name" =>
           /\ (result'.value = "False" => OtherHolds(db, op'.uid, op'.arg))
           /\ (~OtherHolds(db, op'.uid, op'.arg) =>
                  /\ result'.value = "True"
                  /\ db'[op'.uid].name = Some(op'.arg))]_vars

----------------------------------------------------------------------------
(* Properties of sending *)

Healthy == Answers("ok", "ok", "ok")
Decodable(payload) == dec_b64(payload).ok
InTried(uid) == \E k \in 1..Len(tried) : tried[k] = uid

\* C6: a broadcast over N records of which one fails to authenticate still
\* attempts a send on each of the other N-1 records and completes without
\* raising.
Cex_C6 ==
    \A f \in 1..Len(db) :
        ( /\ op.name = "send_command_to_all_blasters"
          /\ Decodable(op.arg)
          /\ net[f].auth # "ok"
          /\ \A i \in 1..Len(db) : i # f => net[i] = Healthy )
        => /\ ~result.raised
           /\ \A i \in 1..Len(db) : i # f => InTried(i)

\* C7: in a broadcast a transport error on one device (authenticated, then
\* send_data failed) does not prevent the attempts on the records after it and
\* is not propagated to the caller.
Cex_C7 ==
    \A f \in 1..Len(db) :
        ( /\ op.name = "send_command_to_all_blasters"
          /\ Decodable(op.arg)
          /\ net[f].auth = "ok" /\ net[f].send # "ok"
          /\ \A i \in 1..Len(db) : i # f => net[i] = Healthy )
        => /\ ~result.raised
           /\ \A i \in 1..Len(db) : i > f => InTried(i)

\* C8: when the session to a record cannot be opened (handshake timed out or
\* rejected), send_command and send_raw return False and available is False;
\* none raises and nothing is sent to the device.
Cex_C8 ==
    ( /\ op.name \in {"send_command", "send_raw", "available"}
      /\ net[op.uid].auth # "ok" )
    => /\ result.value = "False"
       /\ sent = <<>>

\* C9: send_command and send_raw with a payload that cannot be decoded always
\* end in the decode error for the caller, whether or not the session opens.
Cex_C9 ==
    ( /\ op.name \in {"send_command", "send_raw"}
      /\ ~Decodable(op.arg) )
    => /\ result.raised
       /\ result.exc = "binascii.Error"

----------------------------------------------------------------------------
(* Properties of learning *)

\* clock time since capture mode was entered
Elapsed == clock - learn.start

Transient(outcome) == outcome.kind \in {"ReadError", "StorageError"}
NoSignal(outcome) == outcome.kind = "data" /\ StripZeros(outcome.value) = <<>>

\* the call is over, capture mode was entered, and no poll yielded data with a
\* non-zero byte or failed for good
NothingCaptured ==
    /\ learn.pc = "done"
    /\ learn.entered
    /\ \A k \in 1..Len(learn.polls) :
          Transient(learn.polls[k]) \/ NoSignal(learn.polls[k])

\* C10 as stated: without non-empty data before the deadline get_command
\* returns None and the elapsed time is >= the deadline and < deadline + one
\* poll interval.
Cex_C10 ==
    NothingCaptured =>
        /\ result = Returned("None")
        /\ Elapsed >= timeout
        /\ Elapsed < timeout + PollInterval

\* C10 amended: without non-empty data get_command returns None after one
\* interval per poll and before deadline + one interval; the elapsed time is
\* >= the deadline when every poll failed transiently, while a poll that
\* returns empty or all-zero data ends the call at that poll.
Thm_C10 ==
    NothingCaptured =>
        /\ result = Returned("None")
        /\ Elapsed = Len(learn.polls) * PollInterval
        /\ Elapsed < timeout + PollInterval
        /\ ((\A k \in 1..Len(learn.polls) : Transient(learn.polls[k]))
               => Elapsed >= timeout)
        /\ ((\E k \in 1..Len(learn.polls) : NoSignal(learn.polls[k]))
               => NoSignal(learn.polls[Len(learn.polls)]))

\* every poll failed transiently until a deadline between two polls passed
Witness_C10 ==
    /\ NothingCaptured
    /\ Len(learn.polls) >= 2
    /\ \A k \in 1..Len(learn.polls) : Transient(learn.polls[k])
    /\ timeout % PollInterval # 0
    /\ Elapsed > timeout
    /\ result = Returned("None")

\* C11: a poll that returns an empty or all-zero payload makes get_command
\* return None, the result it also returns when the deadline passes, and never
\* an encoded string.
Thm_C11 ==
    /\ (learn.pc = "done" /\ learn.polls # <<>>
            /\ NoSignal(learn.polls[Len(learn.polls)]))
        => result = Returned("None")
    /\ (learn.pc = "done" /\ learn.entered
            /\ \A k \in 1..Len(learn.polls) : Transient(learn.polls[k]))
        => result = Returned("None")

\* the call ended on a poll that returned zero bytes only
Witness_C11 ==
    /\ learn.pc = "done"
    /\ learn.polls # <<>>
    /\ learn.polls[Len(learn.polls)] = [kind |-> "data", value |-> <<0, 0>>]
    /\ Elapsed < timeout
    /\ result = Returned("None")

LastPoll == learn.polls[Len(learn.polls)]

Signal(outcome) == outcome.kind = "data" /\ StripZeros(outcome.value) # <<>>

\* C16: a poll that fails with ReadError or StorageError while the deadline
\* has not elapsed is not surfaced and is followed by a sleep of one interval
\* and another poll; a poll that returns data with a non-zero byte makes
\* get_command return the encoding of exactly that data.
Thm_C16 ==
    [][/\ (learn.pc = "test" /\ learn.polls # <<>> /\ Elapsed < timeout)
            => (Transient(LastPoll) /\ learn'.pc = "sleep" /\ result' = result)
       /\ learn.pc = "sleep"
            => (learn'.pc = "poll" /\ clock' = clock + PollInterval)
       /\ learn.pc = "poll"
            => (Len(learn'.polls) = Len(learn.polls) + 1
                /\ (Transient(learn'.polls[Len(learn'.polls)])
                        => learn'.pc = "test" /\ result' = result))
       /\ ~(result'.raised /\ result'.exc \in {"ReadError", "StorageError"})
       /\ (learn'.pc = "done" /\ learn'.polls # <<>>
                /\ Signal(learn'.polls[Len(learn'.polls)]))
            => /\ result'.value = "text"
               /\ ~result'.raised
               /\ result'.text = enc_b64(learn'.polls[Len(learn'.polls)].value)
               /\ dec_b64(result'.text)
                    = [ok |-> TRUE, val |-> learn'.polls[Len(learn'.polls)].value]]_vars

\* a poll failed, the next one, before the deadline, returned a signal
Witness_C16 ==
    /\ learn.pc = "done"
    /\ Len(learn.polls) = 2
    /\ Transient(learn.polls[1])
    /\ learn.polls[2] = [kind |-> "data", value |-> <<38, 0>>]
    /\ Elapsed < timeout
    /\ result = ReturnedText(<<"J", "g", "A", "=", "\n">>)

\* ceil(a / b)
CeilDiv(a, b) == (a + b - 1) \div b

\* C17: every get_command call that has started ends; there is one sleep of
\* one interval before each poll, at most ceil(deadline / interval) polls,
\* and no poll after the first one that does not fail transiently.
Thm_C17 ==
    /\ [](/\ Len(learn.polls) <= CeilDiv(timeout, PollInterval)
          /\ \A k \in 1..(Len(learn.polls) - 1) : Transient(learn.polls[k])
          /\ learn.pc \in {"test", "done"} /\ learn.entered
                => Elapsed = Len(learn.polls) * PollInterval
          /\ learn.pc = "poll" => Elapsed = (Len(learn.polls) + 1) * PollInterval)
    /\ (learn.pc # "idle") ~> (learn.pc = "done")

\* the call made every poll the deadline allows
Witness_C17 ==
    /\ learn.pc = "done"
    /\ Len(learn.polls) = CeilDiv(timeout, PollInterval)
    /\ Len(learn.polls) >= 3
    /\ timeout % PollInterval # 0
    /\ Elapsed = Len(learn.polls) * PollInterval

----------------------------------------------------------------------------
(* Properties of concurrent calls *)

BothDone == threads # <<>> /\ \A t \in 1..2 : threads[t].pc = "done"

\* C18 as stated: a pass and a rename acting on the same record concurrently
\* lose no update: when both are over the record holds the name the rename
\* set and the ip and port the pass wrote.
Cex_C18 ==
    \A p, r \in DOMAIN threads :
        (/\ BothDone
         /\ threads[p].kind = "pass" /\ threads[p].first # <<>>
         /\ threads[r].kind = "rename"
         /\ threads[r].self.mac_hex = EncHex[threads[p].first[1].mac]
         /\ threads[p].out = ReturnedCount(0)
         /\ threads[r].out = Returned("True"))
        => \A i \in RowsOf(db, threads[r].self.mac_hex) :
              /\ db[i].name = Some(threads[r].name)
              /\ db[i].ip = threads[p].first[1].host[1]
              /\ db[i].port = threads[p].first[1].host[2]

\* C19 as stated: two concurrent passes that discovered the same unseen MAC
\* both complete without raising and leave exactly one record for the MAC.
Cex_C19 ==
    (/\ BothDone
     /\ \A t \in 1..2 : threads[t].kind = "pass" /\ threads[t].first # <<>>
                        /\ threads[t].fresh
     /\ threads[1].first[1].mac = threads[2].first[1].mac)
    => /\ \A t \in 1..2 : ~threads[t].out.raised
       /\ threads[1].out.cnt + threads[2].out.cnt = 1
       /\ Cardinality(RowsOf(db, EncHex[threads[1].first[1].mac])) = 1

\* C20 as stated: of two concurrent renames of different records to the same
\* unused name exactly one returns True and the other returns False, neither
\* raises, and no two records ever hold the same name.
Cex_C20 ==
    /\ \A i, j \in 1..Len(db) :
          (i # j /\ ~db[i].name.isNone) => db[i].name # db[j].name
    /\ (/\ BothDone
        /\ \A t \in 1..2 : threads[t].kind = "rename" /\ threads[t].fresh
        /\ threads[1].self.uid # threads[2].self.uid
        /\ threads[1].name = threads[2].name)
       => /\ \A t \in 1..2 : ~threads[t].out.raised
          /\ {threads[1].out.value, threads[2].out.value} = {"True", "False"}

====
